---- MODULE Spec2Model ----
(***************************************************************************)
(* AudioRecorder (src/src/audiomodel.py): the capture callback, the block  *)
(* queue, the memory-manager loop, fusion, the disk writer, and the        *)
(* start / stop / auto-stop life cycle, as a state machine of the threads  *)
(* that run them (caller thread, PortAudio callback thread, memory thread, *)
(* threading.Timer thread).  One step is one access to shared state.       *)
(***************************************************************************)
EXTENDS Integers, Sequences, FiniteSets, TLC

\* ------------------------------------------------------------------ bounds
MaxSessions == 2
MaxBlocks == 2
BlockSize == 1
MaxSaves == 2

\* ------------------------------------------------- program constants
\* sys.getsizeof(self._soundblock_q): the baseline of the memory estimate
Baseline == 1
\* sys.getsizeof(indata) + indata.nbytes: what one block adds to the estimate
BlockBytes == 2
\* max_memeory = -1: the constructor's default, "unbounded"
Unbounded == -1
\* max_memeory = 1000000: what the application configures
AppMaxMemory == 1000000

VARIABLES
    max_memory,          \* self.max_memory
    partition,           \* self._partition
    rec,                 \* self._rec
    filepath,            \* self.filepath
    mem_size,            \* self._mem_size
    partition_ctr,       \* self._partition_ctr
    rectime,             \* self._rectime, in block lengths
    prev_ab,             \* self._prev_ab (0 = None, else a block id)
    soundblock_q,        \* self._soundblock_q: sequence of block ids
    unfinished,          \* queue.Queue.unfinished_tasks
    input_stream,        \* self._input_stream (0 = None, else a session)
    memory_thread,       \* self._memory_thread (-1 = attribute never set, 0 = None)
    stop_timer_thread,   \* self._stop_timer_thread (0 = None)
    stream,              \* the sd.InputStream object made by session s
    cb,                  \* the callback invocation running on stream s
    tfin,                \* Timer.finished of the timer made by session s
    pc,                  \* position of every thread
    loc,                 \* locals of a thread inside _manage_record
    args,                \* arguments of the start_recording call in progress
    disk,                \* files: name -> frames
    blocks,              \* every block delivered so far: id -> session of its stream, frames
    sess,                \* number of start_recording calls that passed line 193
    hlog,                \* block ids handed to _save, in order
    wlog,                \* writes to disk, in order: file, frames, session
    err,                 \* exception that ended the thread's last call
    ffstart,             \* sessions whose stop has begun its forced flush
    stops,               \* <<thread, session>>: the thread passed line 232 in that session
    stopped,             \* <<thread, session>>: that stop_recording returned
    spath,               \* the path each session was started with
    budget,              \* how many blocks the device delivers in this run
    saves,               \* calls of _save made for each session (counted up to MaxSaves)
    last                 \* the caller's last call, "_noop" when it returned at once

vars == << max_memory, partition, rec, filepath, mem_size, partition_ctr, rectime,
           prev_ab, soundblock_q, unfinished, input_stream, memory_thread,
           stop_timer_thread, stream, cb, tfin, pc, loc, args, disk, blocks, sess,
           hlog, wlog, err, ffstart, stops, stopped, spath, budget, saves, last >>

\* ------------------------------------------------------------------ names
Sessions == 1..MaxSessions
User == <<"u", 0>>
TimerThr(s) == <<"t", s>>
MemThr(s) == <<"m", s>>
Threads == {User} \cup {TimerThr(s) : s \in Sessions} \cup {MemThr(s) : s \in Sessions}
Kind(t) == t[1]

NoPath == [stem |-> "None", suf |-> ""]
Paths == [stem : {"new", "old"}, suf : {"wav", "xyz"}]
\* sf.available_formats(): the suffixes soundfile can write
AvailableFormats == {"wav"}
\* self._default_fformat[0]
DefaultFormat == "wav"
\* a file on disk: the path's stem and suffix, and the partition index (-1: none)
FileName(p, k) == [stem |-> p.stem, suf |-> p.suf, part |-> k]
IsFile(p) == FileName(p, -1) \in DOMAIN disk
\* the content of the file that exists before the first session
OldFrames == << -1 >>

NoLoc == [nblocks |-> 0, i |-> 0, data_ptr |-> 0, audio_np |-> << >>, isNone |-> TRUE,
          fp |-> FileName(NoPath, -1), tgt |-> 0]
CbIdle == [pc |-> "idle", tmp |-> 0, blk |-> 0]

\* the threshold that one block reaches
OneBlock == Baseline + BlockBytes
MaxMemoryValues == {Unbounded, 0, OneBlock, AppMaxMemory}

\* the state __init__ leaves (lines 41-69), for the configurations given
Boot(mems, parts, nblocks) ==
    /\ max_memory \in mems
    /\ partition \in parts
    /\ budget = nblocks
    /\ rec = FALSE
    /\ filepath = NoPath
    /\ mem_size = Baseline
    /\ partition_ctr = 0
    /\ rectime = 0
    /\ prev_ab = 0
    /\ soundblock_q = << >>
    /\ unfinished = 0
    /\ input_stream = 0
    /\ memory_thread = IF max_memory >= 0 THEN 0 ELSE -1
    /\ stop_timer_thread = 0
    /\ stream = [s \in Sessions |-> "none"]
    /\ cb = [s \in Sessions |-> CbIdle]
    /\ tfin = [s \in Sessions |-> FALSE]
    /\ pc = [t \in Threads |-> IF t = User THEN "idle" ELSE "none"]
    /\ loc = [t \in Threads |-> NoLoc]
    /\ args = [path |-> NoPath, max_time |-> -1]
    /\ disk = (FileName([stem |-> "old", suf |-> "wav"], -1) :> OldFrames)
    /\ blocks = << >>
    /\ sess = 0
    /\ hlog = << >>
    /\ wlog = << >>
    /\ err = [t \in Threads |-> "none"]
    /\ ffstart = {}
    /\ stops = {}
    /\ stopped = {}
    /\ spath = [s \in Sessions |-> NoPath]
    /\ saves = [s \in Sessions |-> 0]
    /\ last = "none"

Init == Boot(MaxMemoryValues, BOOLEAN, MaxBlocks)


\* ------------------------------------------------------------ frame groups
cfgV == << max_memory, partition, budget >>
handleV == << input_stream, memory_thread, stop_timer_thread >>
queueV == << soundblock_q, unfinished >>
statV == << mem_size, rectime, prev_ab >>
objV == << stream, cb, tfin >>
fileV == << filepath, partition_ctr, disk >>
logV == << hlog, wlog, ffstart, stops, stopped, spath, saves, last >>

\* ---------------------------------------------------------- control flow
\* where a thread is once its call has ended
Finished(t) == IF t = User THEN "idle" ELSE IF Kind(t) = "t" THEN "done" ELSE "dead"
Goto(t, p) == pc' = [pc EXCEPT ![t] = p] /\ err' = err
\* an exception nobody catches ends the call (and, off the caller thread, the thread)
Raise(t, e) == pc' = [pc EXCEPT ![t] = Finished(t)] /\ err' = [err EXCEPT ![t] = e]
Return(t) == pc' = [pc EXCEPT ![t] = Finished(t)] /\ err' = [err EXCEPT ![t] = "none"]

\* the threads that can run stop_recording: the caller and the timers
Stoppers == {User} \cup {TimerThr(s) : s \in Sessions}
\* the threads that can run _manage_record: the stoppers and the memory threads
Flushers == Threads

\* ----------------------------------------------------- _record_callback
\* line 75, the load of self._mem_size (PortAudio delivers one block per call)
CbLoad(s) ==
    /\ stream[s] = "active"
    /\ cb[s].pc = "idle"
    /\ Len(blocks) < budget
    /\ blocks' = Append(blocks, [s |-> s, frames |-> BlockSize])
    /\ cb' = [cb EXCEPT ![s] = [pc |-> "store", tmp |-> mem_size, blk |-> Len(blocks) + 1]]
    /\ UNCHANGED << cfgV, handleV, queueV, statV, fileV, logV, rec, stream, tfin,
                    pc, loc, args, sess, err >>

\* line 75, the store of self._mem_size
CbStore(s) ==
    /\ cb[s].pc = "store"
    /\ mem_size' = cb[s].tmp + BlockBytes
    /\ cb' = [cb EXCEPT ![s].pc = "put"]
    /\ UNCHANGED << cfgV, handleV, queueV, fileV, logV, rec, rectime, prev_ab, stream,
                    tfin, pc, loc, args, blocks, sess, err >>

\* lines 76-77
CbPut(s) ==
    /\ cb[s].pc = "put"
    /\ prev_ab' = cb[s].blk
    /\ soundblock_q' = Append(soundblock_q, cb[s].blk)
    /\ unfinished' = unfinished + 1
    /\ cb' = [cb EXCEPT ![s].pc = "time"]
    /\ UNCHANGED << cfgV, handleV, fileV, logV, rec, mem_size, rectime, stream, tfin,
                    pc, loc, args, blocks, sess, err >>

\* line 78
CbTime(s) ==
    /\ cb[s].pc = "time"
    /\ rectime' = rectime + 1
    /\ cb' = [cb EXCEPT ![s] = CbIdle]
    /\ UNCHANGED << cfgV, handleV, queueV, fileV, logV, rec, mem_size, prev_ab, stream,
                    tfin, pc, loc, args, blocks, sess, err >>

\* ------------------------------------------------------- start_recording
\* start_recording without the guard of lines 193-194
StartRecordingUnguarded(path, max_time) ==
    /\ pc[User] = "idle"
    /\ sess < MaxSessions
    /\ filepath' = path
    /\ args' = [path |-> path, max_time |-> max_time]
    /\ sess' = sess + 1
    /\ spath' = [spath EXCEPT ![sess + 1] = path]
    /\ last' = "start"
    /\ pc' = [pc EXCEPT ![User] = "sr_rec"]
    /\ err' = [err EXCEPT ![User] = "none"]
    /\ UNCHANGED << cfgV, handleV, queueV, statV, objV, rec, partition_ctr, disk,
                    loc, blocks, hlog, wlog, ffstart, stops, stopped, saves >>

\* lines 193-199: the call, the guard on self._rec and the assignment of filepath
StartRecording(path, max_time) ==
    /\ pc[User] = "idle"
    /\ IF rec
       THEN /\ last' = "start_noop"
            /\ err' = [err EXCEPT ![User] = "none"]
            /\ UNCHANGED << cfgV, handleV, queueV, statV, objV, fileV, rec, pc, loc, args,
                            blocks, sess, hlog, wlog, ffstart, stops, stopped, spath, saves >>
       ELSE /\ sess < MaxSessions
            /\ filepath' = path
            /\ args' = [path |-> path, max_time |-> max_time]
            /\ sess' = sess + 1
            /\ spath' = [spath EXCEPT ![sess + 1] = path]
            /\ last' = "start"
            /\ pc' = [pc EXCEPT ![User] = "sr_rec"]
            /\ err' = [err EXCEPT ![User] = "none"]
            /\ UNCHANGED << cfgV, handleV, queueV, statV, objV, rec, partition_ctr, disk,
                            loc, blocks, hlog, wlog, ffstart, stops, stopped, saves >>

\* lines 201-202
SrRec ==
    /\ pc[User] = "sr_rec"
    /\ rec' = TRUE
    /\ Goto(User, "sr_stream")
    /\ UNCHANGED << cfgV, handleV, queueV, statV, objV, fileV, logV, loc, args,
                    blocks, sess >>

\* lines 203-213: sd.InputStream(...) opens the device, or raises PortAudioError
SrStream(ok) ==
    /\ pc[User] = "sr_stream"
    /\ IF ok
       THEN /\ stream' = [stream EXCEPT ![sess] = "open"]
            /\ input_stream' = sess
            /\ Goto(User, "sr_timer")
       ELSE /\ Raise(User, "PortAudioError")
            /\ UNCHANGED << stream, input_stream >>
    /\ UNCHANGED << cfgV, queueV, statV, fileV, logV, rec, memory_thread,
                    stop_timer_thread, cb, tfin, loc, args, blocks, sess >>

\* lines 214-216
SrTimer ==
    /\ pc[User] = "sr_timer"
    /\ IF args.max_time > 0
       THEN /\ stop_timer_thread' = sess
            /\ pc' = [pc EXCEPT ![User] = "sr_mthread", ![TimerThr(sess)] = "created"]
       ELSE /\ pc' = [pc EXCEPT ![User] = "sr_mthread"]
            /\ UNCHANGED stop_timer_thread
    /\ UNCHANGED << cfgV, queueV, statV, objV, fileV, logV, rec, input_stream,
                    memory_thread, loc, args, blocks, sess, err >>

\* lines 218-220 without the test of self.max_memory
SrMThreadAlways ==
    /\ pc[User] = "sr_mthread"
    /\ memory_thread' = sess
    /\ pc' = [pc EXCEPT ![User] = "sr_sstart", ![MemThr(sess)] = "created"]
    /\ UNCHANGED << cfgV, queueV, statV, objV, fileV, logV, rec, input_stream,
                    stop_timer_thread, loc, args, blocks, sess, err >>

\* lines 218-220
SrMThread ==
    /\ pc[User] = "sr_mthread"
    /\ IF max_memory >= 0
       THEN /\ memory_thread' = sess
            /\ pc' = [pc EXCEPT ![User] = "sr_sstart", ![MemThr(sess)] = "created"]
       ELSE /\ pc' = [pc EXCEPT ![User] = "sr_sstart"]
            /\ UNCHANGED memory_thread
    /\ UNCHANGED << cfgV, queueV, statV, objV, fileV, logV, rec, input_stream,
                    stop_timer_thread, loc, args, blocks, sess, err >>

\* line 222: Pa_StartStream
SrSStart ==
    /\ pc[User] = "sr_sstart"
    /\ IF input_stream = 0
       THEN Raise(User, "AttributeError") /\ UNCHANGED stream
       ELSE stream' = [stream EXCEPT ![input_stream] = "active"] /\ Goto(User, "sr_mstart")
    /\ UNCHANGED << cfgV, handleV, queueV, statV, fileV, logV, rec, cb, tfin, loc,
                    args, blocks, sess >>

\* lines 224-225: the attribute exists only if __init__ saw max_memeory >= 0 (lines 52-53)
SrMStart ==
    /\ pc[User] = "sr_mstart"
    /\ CASE memory_thread = -1 -> Raise(User, "AttributeError")
         [] memory_thread = 0 -> Goto(User, "sr_tstart")
         [] OTHER ->
              IF pc[MemThr(memory_thread)] = "created"
              THEN /\ pc' = [pc EXCEPT ![User] = "sr_tstart",
                                       ![MemThr(memory_thread)] = "rl_test"]
                   /\ err' = err
              ELSE Raise(User, "RuntimeError")
    /\ UNCHANGED << cfgV, handleV, queueV, statV, objV, fileV, logV, rec, loc, args,
                    blocks, sess >>

\* lines 227-228
SrTStart ==
    /\ pc[User] = "sr_tstart"
    /\ IF stop_timer_thread = 0
       THEN Return(User)
       ELSE IF pc[TimerThr(stop_timer_thread)] = "created"
            THEN /\ pc' = [pc EXCEPT ![User] = "idle",
                                     ![TimerThr(stop_timer_thread)] = "waiting"]
                 /\ err' = [err EXCEPT ![User] = "none"]
            ELSE Raise(User, "RuntimeError")
    /\ UNCHANGED << cfgV, handleV, queueV, statV, objV, fileV, logV, rec, loc, args,
                    blocks, sess >>

\* -------------------------------------------------------- threading.Timer
\* Timer.run: finished.wait(interval) has timed out and finished is not set, so
\* the timer is committed to calling stop_recording (line 215 made it so)
TimerExpire(s) ==
    /\ pc[TimerThr(s)] = "waiting"
    /\ ~tfin[s]
    /\ Goto(TimerThr(s), "fired")
    /\ UNCHANGED << cfgV, handleV, queueV, statV, objV, fileV, logV, rec, loc, args,
                    blocks, sess >>

\* -------------------------------------------------------- stop_recording
\* line 232: the call and the guard on self._rec
StopRecording(t) ==
    /\ t \in Stoppers
    /\ pc[t] = IF t = User THEN "idle" ELSE "fired"
    /\ IF rec
       THEN /\ pc' = [pc EXCEPT ![t] = "st_set"]
            /\ err' = [err EXCEPT ![t] = "none"]
            /\ loc' = [loc EXCEPT ![t] = [NoLoc EXCEPT !.tgt = sess]]
            /\ stops' = stops \cup {<< t, sess >>}
            /\ last' = IF t = User THEN "stop" ELSE last
       ELSE /\ Return(t)
            /\ last' = IF t = User THEN "stop_noop" ELSE last
            /\ UNCHANGED << loc, stops >>
    /\ UNCHANGED << cfgV, handleV, queueV, statV, objV, fileV, rec, args, blocks, sess,
                    hlog, wlog, ffstart, stopped, spath, saves >>

\* line 233
StSet(t) ==
    /\ t \in Stoppers
    /\ pc[t] = "st_set"
    /\ rec' = FALSE
    /\ UNCHANGED loc
    /\ Goto(t, "st_t1")
    /\ UNCHANGED << cfgV, handleV, queueV, statV, objV, fileV, logV, args, blocks, sess >>

\* line 234
StTimerTest(t) ==
    /\ t \in Stoppers
    /\ pc[t] = "st_t1"
    /\ Goto(t, IF stop_timer_thread # 0 THEN "st_t2" ELSE "st_stream")
    /\ UNCHANGED << cfgV, handleV, queueV, statV, objV, fileV, logV, rec, loc, args,
                    blocks, sess >>

\* line 235: Timer.cancel() sets finished
StTimerCancel(t) ==
    /\ t \in Stoppers
    /\ pc[t] = "st_t2"
    /\ IF stop_timer_thread = 0
       THEN Raise(t, "AttributeError") /\ UNCHANGED tfin
       ELSE tfin' = [tfin EXCEPT ![stop_timer_thread] = TRUE] /\ Goto(t, "st_t3")
    /\ UNCHANGED << cfgV, handleV, queueV, statV, fileV, logV, rec, stream, cb, loc,
                    args, blocks, sess >>

\* line 236
StTimerClear(t) ==
    /\ t \in Stoppers
    /\ pc[t] = "st_t3"
    /\ stop_timer_thread' = 0
    /\ Goto(t, "st_stream")
    /\ UNCHANGED << cfgV, queueV, statV, objV, fileV, logV, rec, input_stream,
                    memory_thread, loc, args, blocks, sess >>

\* line 237: Pa_StopStream returns once the pending callback has finished; on a
\* stream that is not running it fails and sounddevice ignores the error
StStream(t) ==
    /\ t \in Stoppers
    /\ pc[t] = "st_stream"
    /\ IF input_stream = 0
       THEN Raise(t, "AttributeError") /\ UNCHANGED stream
       ELSE /\ stream[input_stream] = "active" => cb[input_stream].pc = "idle"
            /\ stream' = [stream EXCEPT ![input_stream] =
                             IF @ = "active" THEN "stopped" ELSE @]
            /\ Goto(t, "st_join")
    /\ UNCHANGED << cfgV, handleV, queueV, statV, fileV, logV, rec, cb, tfin, loc,
                    args, blocks, sess >>

\* lines 238-240: join returns once the thread has ended, then the forced flush
\* (_manage_record(True), whose test at line 102 is true) begins
StJoin(t) ==
    /\ t \in Stoppers
    /\ pc[t] = "st_join"
    /\ CASE max_memory < 0 ->
              Goto(t, "fq_empty") /\ ffstart' = ffstart \cup {loc[t].tgt}
         [] max_memory >= 0 /\ memory_thread = 0 ->
              Raise(t, "AttributeError") /\ UNCHANGED ffstart
         [] max_memory >= 0 /\ memory_thread > 0 ->
              /\ pc[MemThr(memory_thread)] \in {"created", "dead"}
              /\ IF pc[MemThr(memory_thread)] = "created"
                 THEN Raise(t, "RuntimeError") /\ UNCHANGED ffstart
                 ELSE Goto(t, "fq_empty") /\ ffstart' = ffstart \cup {loc[t].tgt}
    /\ UNCHANGED << cfgV, handleV, queueV, statV, objV, fileV, rec, loc, args, blocks,
                    sess, hlog, wlog, stops, stopped, spath, saves, last >>

\* lines 241-242 with the target path forgotten as well
StClearPath(t) ==
    /\ t \in Stoppers
    /\ pc[t] = "st_clear"
    /\ prev_ab' = 0
    /\ rectime' = 0
    /\ filepath' = NoPath
    /\ Return(t)
    /\ stopped' = stopped \cup {<< t, loc[t].tgt >>}
    /\ loc' = [loc EXCEPT ![t] = NoLoc]
    /\ UNCHANGED << cfgV, handleV, queueV, objV, partition_ctr, disk, rec, mem_size,
                    args, blocks, sess, hlog, wlog, ffstart, stops, spath, saves, last >>

\* lines 241-242
StClear(t) ==
    /\ t \in Stoppers
    /\ pc[t] = "st_clear"
    /\ prev_ab' = 0
    /\ rectime' = 0
    /\ Return(t)
    /\ stopped' = stopped \cup {<< t, loc[t].tgt >>}
    /\ loc' = [loc EXCEPT ![t] = NoLoc]
    /\ UNCHANGED << cfgV, handleV, queueV, objV, fileV, rec, mem_size, args, blocks, sess,
                    hlog, wlog, ffstart, stops, spath, saves, last >>

\* ------------------------------------------------------- _recording_loop
\* line 112
RlTest(s) ==
    /\ pc[MemThr(s)] = "rl_test"
    /\ IF rec THEN Goto(MemThr(s), "mr_test") ELSE Return(MemThr(s))
    /\ UNCHANGED << cfgV, handleV, queueV, statV, objV, fileV, logV, rec, loc, args,
                    blocks, sess >>

\* line 102 with now = False; lines 107-108 and 114 lead back to line 112
MrTest(s) ==
    /\ pc[MemThr(s)] = "mr_test"
    /\ Goto(MemThr(s), IF mem_size >= max_memory THEN "fq_empty" ELSE "rl_test")
    /\ UNCHANGED << cfgV, handleV, queueV, statV, objV, fileV, logV, rec, loc, args,
                    blocks, sess >>

\* ----------------------------------------------------- _fuse_recording_q
Zeros(n) == [k \in 1..n |-> 0]
\* an uncaught exception inside _manage_record: the locals die with the frame
RaiseIn(t, e) == Raise(t, e) /\ loc' = [loc EXCEPT ![t] = NoLoc]
\* what a stopper keeps across the flush: the session it is stopping
Cleared(t) == [NoLoc EXCEPT !.tgt = loc[t].tgt]
\* the session a thread works for: a memory thread for the one that started it,
\* a stop_recording call for the one it found recording at line 232
SessionOf(t) == IF Kind(t) = "m" THEN t[2] ELSE loc[t].tgt
\* the block ids that fusion copied into a buffer of n slots
BlocksIn(a, n) ==
    LET first == [k \in 1..n |-> a[(k - 1) * (BlockSize + 1) + 1]]
    IN  SelectSeq(first, LAMBDA b : b # 0)

\* line 123: Queue.empty(); lines 125-126 return None
FqEmpty(t) ==
    /\ pc[t] = "fq_empty"
    /\ IF soundblock_q = << >>
       THEN /\ loc' = [loc EXCEPT ![t].isNone = TRUE, ![t].audio_np = << >>]
            /\ Goto(t, "sv_path")
       ELSE Goto(t, "fq_size") /\ UNCHANGED loc
    /\ UNCHANGED << cfgV, handleV, queueV, statV, objV, fileV, logV, rec, args,
                    blocks, sess >>

\* lines 124 and 129-130: Queue.qsize(), then np.zeros(((block_size + 1) * nblocks, ch))
FqSize(t) ==
    /\ pc[t] = "fq_size"
    /\ loc' = [loc EXCEPT ![t].nblocks = Len(soundblock_q),
                          ![t].i = 0,
                          ![t].data_ptr = 0,
                          ![t].audio_np = Zeros((BlockSize + 1) * Len(soundblock_q))]
    /\ Goto(t, IF Len(soundblock_q) = 0 THEN "fq_done" ELSE "fq_get")
    /\ UNCHANGED << cfgV, handleV, queueV, statV, objV, fileV, logV, rec, args,
                    blocks, sess >>

\* lines 132-138 with every block advancing data_ptr, copied or not
FqGetAdvance(t) ==
    /\ pc[t] = "fq_get"
    /\ soundblock_q # << >>
    /\ soundblock_q' = Tail(soundblock_q)
    /\ loc' = [loc EXCEPT
         ![t].i = @ + 1,
         ![t].data_ptr = @ + BlockSize + 1,
         ![t].audio_np = [k \in DOMAIN @ |->
              IF /\ blocks[Head(soundblock_q)].frames = BlockSize
                 /\ k > loc[t].data_ptr /\ k <= loc[t].data_ptr + BlockSize
              THEN Head(soundblock_q) ELSE @[k]]]
    /\ Goto(t, IF loc[t].i + 1 = loc[t].nblocks THEN "fq_done" ELSE "fq_get")
    /\ UNCHANGED << cfgV, handleV, statV, objV, fileV, logV, rec, args, blocks, sess,
                    unfinished >>

\* lines 132-138, one iteration: get(False) raises queue.Empty on an empty queue;
\* the assignment into the slice raises ValueError for a block that has not
\* block_size frames (the block is out of the queue by then); the except clause
\* swallows both without advancing data_ptr
FqGet(t) ==
    /\ pc[t] = "fq_get"
    /\ CASE soundblock_q = << >> ->
              /\ loc' = [loc EXCEPT ![t].i = @ + 1]
              /\ UNCHANGED soundblock_q
         [] soundblock_q # << >> /\ blocks[Head(soundblock_q)].frames # BlockSize ->
              /\ soundblock_q' = Tail(soundblock_q)
              /\ loc' = [loc EXCEPT ![t].i = @ + 1]
         [] OTHER ->
              /\ soundblock_q' = Tail(soundblock_q)
              /\ loc' = [loc EXCEPT
                   ![t].i = @ + 1,
                   ![t].data_ptr = @ + BlockSize + 1,
                   ![t].audio_np = [k \in DOMAIN @ |->
                        IF k > loc[t].data_ptr /\ k <= loc[t].data_ptr + BlockSize
                        THEN Head(soundblock_q) ELSE @[k]]]
    /\ Goto(t, IF loc[t].i + 1 = loc[t].nblocks THEN "fq_done" ELSE "fq_get")
    /\ UNCHANGED << cfgV, handleV, statV, objV, fileV, logV, rec, args, blocks, sess,
                    unfinished >>

\* lines 139-140: Queue.task_done() raises ValueError when called more often
\* than put()
FqDone(t) ==
    /\ pc[t] = "fq_done"
    /\ IF unfinished = 0
       THEN RaiseIn(t, "ValueError") /\ UNCHANGED unfinished
       ELSE /\ unfinished' = unfinished - 1
            /\ loc' = [loc EXCEPT ![t].isNone = FALSE]
            /\ Goto(t, "sv_path")
    /\ UNCHANGED << cfgV, handleV, statV, objV, fileV, logV, rec, args, blocks, sess,
                    soundblock_q >>

\* ------------------------------------------------------------------ _save
\* lines 104 and 150-152: the buffer is handed to _save, which picks its branch
SvPath(t) ==
    /\ pc[t] = "sv_path"
    /\ hlog' = IF loc[t].isNone THEN hlog
               ELSE hlog \o BlocksIn(loc[t].audio_np, loc[t].nblocks)
    /\ Goto(t, IF filepath = NoPath THEN "mr_reset"
               ELSE IF IsFile(filepath) /\ ~partition THEN "sv_append"
               ELSE "sv_fmt")
    /\ saves' = [saves EXCEPT ![SessionOf(t)] = IF @ < MaxSaves THEN @ + 1 ELSE @]
    /\ UNCHANGED << cfgV, handleV, queueV, statV, objV, fileV, rec, loc, args, blocks,
                    sess, wlog, ffstart, stops, stopped, spath, last >>

\* lines 153-155: SoundFile(mode='r+'), seek to the end, write; write(None) raises
SvAppend(t) ==
    /\ pc[t] = "sv_append"
    /\ IF filepath = NoPath \/ ~IsFile(filepath)
       THEN RaiseIn(t, "RuntimeError") /\ UNCHANGED << disk, wlog >>
       ELSE IF loc[t].isNone
       THEN RaiseIn(t, "TypeError") /\ UNCHANGED << disk, wlog >>
       ELSE /\ disk' = [disk EXCEPT ![FileName(filepath, -1)] = @ \o loc[t].audio_np]
            /\ wlog' = Append(wlog, [fp |-> FileName(filepath, -1),
                                     frames |-> loc[t].audio_np,
                                     s |-> SessionOf(t)])
            /\ Goto(t, "mr_reset")
            /\ UNCHANGED loc
    /\ UNCHANGED << cfgV, handleV, queueV, statV, objV, rec, args, blocks, sess,
                    filepath, partition_ctr, hlog, ffstart, stops, stopped, spath, saves, last >>

\* lines 158-172: look the suffix up; fall back to the default format, rewrite
\* the suffix and refuse a path that is taken (building the IOError's message
\* fails: '{sf}'.format(<positional>) raises KeyError, which is what propagates)
SvFormat(t) ==
    /\ pc[t] = "sv_fmt"
    /\ CASE filepath = NoPath ->
              RaiseIn(t, "AttributeError") /\ UNCHANGED filepath
         [] filepath # NoPath /\ filepath.suf \in AvailableFormats ->
              Goto(t, "sv_name") /\ UNCHANGED << filepath, loc >>
         [] OTHER ->
              /\ filepath' = [filepath EXCEPT !.suf = DefaultFormat]
              /\ IF IsFile([filepath EXCEPT !.suf = DefaultFormat])
                 THEN RaiseIn(t, "KeyError")
                 ELSE Goto(t, "sv_name") /\ UNCHANGED loc
    /\ UNCHANGED << cfgV, handleV, queueV, statV, objV, logV, rec, args, blocks, sess,
                    partition_ctr, disk >>

\* lines 173-175 and 177-178: the name of the file to write
SvName(t) ==
    /\ pc[t] = "sv_name"
    /\ IF partition
       THEN IF filepath = NoPath
            THEN RaiseIn(t, "AttributeError")
            ELSE /\ loc' = [loc EXCEPT ![t].fp = FileName(filepath, partition_ctr)]
                 /\ Goto(t, "sv_inc")
       ELSE /\ loc' = [loc EXCEPT ![t].fp = FileName(filepath, -1)]
            /\ Goto(t, "sv_write")
    /\ UNCHANGED << cfgV, handleV, queueV, statV, objV, fileV, logV, rec, args,
                    blocks, sess >>

\* line 176
SvInc(t) ==
    /\ pc[t] = "sv_inc"
    /\ partition_ctr' = partition_ctr + 1
    /\ Goto(t, "sv_write")
    /\ UNCHANGED << cfgV, handleV, queueV, statV, objV, logV, rec, loc, args, blocks,
                    sess, filepath, disk >>

\* line 179: sf.write creates or truncates the file; sf.write(fp, None) raises
\* before it opens it
SvWrite(t) ==
    /\ pc[t] = "sv_write"
    /\ IF loc[t].isNone
       THEN RaiseIn(t, "IndexError") /\ UNCHANGED << disk, wlog >>
       ELSE /\ disk' = [f \in DOMAIN disk \cup {loc[t].fp} |->
                          IF f = loc[t].fp THEN loc[t].audio_np ELSE disk[f]]
            /\ wlog' = Append(wlog, [fp |-> loc[t].fp, frames |-> loc[t].audio_np,
                                     s |-> SessionOf(t)])
            /\ Goto(t, "mr_reset")
            /\ UNCHANGED loc
    /\ UNCHANGED << cfgV, handleV, queueV, statV, objV, rec, args, blocks, sess,
                    filepath, partition_ctr, hlog, ffstart, stops, stopped, spath, saves, last >>

\* ---------------------------------------------------------- _manage_record
\* lines 105-106, then back to the caller: line 114 or line 241
MrReset(t) ==
    /\ pc[t] = "mr_reset"
    /\ mem_size' = Baseline
    /\ loc' = [loc EXCEPT ![t] = Cleared(t)]
    /\ Goto(t, IF Kind(t) = "m" THEN "rl_test" ELSE "st_clear")
    /\ UNCHANGED << cfgV, handleV, queueV, objV, fileV, logV, rec, rectime, prev_ab,
                    args, blocks, sess >>

\* ------------------------------------------------------------------ system
\* the capture callback
Capture ==
    \/ \E s \in Sessions : CbLoad(s)
    \/ \E s \in Sessions : CbStore(s)
    \/ \E s \in Sessions : CbPut(s)
    \/ \E s \in Sessions : CbTime(s)

\* the caller inside start_recording
Starting ==
    \/ SrRec
    \/ SrTimer
    \/ SrMThread
    \/ SrSStart
    \/ SrMStart
    \/ SrTStart

\* thread t inside stop_recording
Stopping(t) ==
    \/ StSet(t)
    \/ StTimerTest(t)
    \/ StStream(t)
    \/ StJoin(t)
    \/ StClear(t)

\* thread t inside _manage_record, up to the choice of _save's branch
Flushing(t) ==
    \/ FqEmpty(t)
    \/ FqSize(t)
    \/ FqGet(t)
    \/ FqDone(t)
    \/ SvPath(t)
    \/ MrReset(t)

\* thread t inside _save with a target path
Saving(t) ==
    \/ SvAppend(t)
    \/ SvFormat(t)
    \/ SvName(t)
    \/ SvWrite(t)

\* the memory thread's loop
Polling(s) ==
    \/ RlTest(s)
    \/ MrTest(s)

\* the timer, and the two lines of stop_recording only a timer leads to
Timed ==
    \/ \E s \in Sessions : TimerExpire(s)
    \/ \E t \in Stoppers : StTimerCancel(t)
    \/ \E t \in Stoppers : StTimerClear(t)

Running ==
    \/ Capture
    \/ Starting
    \/ \E t \in Stoppers : Stopping(t)
    \/ \E t \in Flushers : Flushing(t)
    \/ \E s \in Sessions : Polling(s)

\* the calls of the application (recorderapp.py lines 211, 213, 219) and what the
\* device answers; a call that would start a session is made while sessions
\* are left in the bound
Calls(paths, times, devs, limit) ==
    \/ \E p \in paths, m \in times : (rec \/ sess < limit) /\ StartRecording(p, m)
    \/ \E ok \in devs : SrStream(ok)
    \/ \E t \in Stoppers : StopRecording(t)

AllPaths == Paths \cup {NoPath}
MaxTimes == {-1, 1}

\* one recorder, every configuration, one session
Next ==
    \/ Running
    \/ Timed
    \/ \E t \in Flushers : Saving(t)
    \/ \E t \in Flushers : SvInc(t)
    \/ Calls(AllPaths, MaxTimes, BOOLEAN, 1)

Spec == Init /\ [][Next]_vars

\* the same recorder without auto-stop, over two sessions
NextManual ==
    \/ Running
    \/ \E t \in Flushers : Saving(t)
    \/ \E t \in Flushers : SvInc(t)
    \/ Calls(AllPaths, {-1}, BOOLEAN, MaxSessions)

SpecManual == Init /\ [][NextManual]_vars

\* two sessions of a recorder configured as the application configures it
\* (recorderapp.py line 38), capturing without a target path: the first session
\* is left to its auto-stop timer, the next is started without one
InitTwo == Boot({AppMaxMemory}, {FALSE}, MaxBlocks + 1)

NextTwo ==
    \/ Running
    \/ Timed
    \/ \E m \in (IF sess = 0 THEN {1} ELSE {-1}) :
           (rec \/ sess < MaxSessions) /\ StartRecording(NoPath, m)
    \/ SrStream(TRUE)
    \/ \E s \in Sessions : StopRecording(TimerThr(s))

SpecTwo == InitTwo /\ [][NextTwo]_vars

\* one session under fair scheduling: every thread that can take a step
\* eventually takes one, a running call continues, and a started timer
\* expires; the application is not obliged to call anything
InitLive == Boot({Unbounded, OneBlock}, {FALSE}, MaxBlocks)

NextLive ==
    \/ Running
    \/ Timed
    \/ \E t \in Flushers : Saving(t)
    \/ Calls({NoPath, [stem |-> "new", suf |-> "wav"]}, MaxTimes, {TRUE}, 1)

\* the steps thread t takes on its own
Step(t) ==
    \/ Stopping(t)
    \/ StTimerCancel(t)
    \/ StTimerClear(t)
    \/ Flushing(t)
    \/ Saving(t)
    \/ t = User /\ (Starting \/ SrStream(TRUE))
    \/ Kind(t) = "t" /\ (TimerExpire(t[2]) \/ StopRecording(t))
    \/ Kind(t) = "m" /\ Polling(t[2])

SpecLive ==
    /\ InitLive
    /\ [][NextLive]_vars
    /\ \A t \in Threads : WF_vars(Step(t))
    /\ WF_vars(Capture)

\* _fuse_recording_q and _save on their own: the forced flush of a stopped
\* session (lines 240, 103-105), for every queue of up to MaxBlocks + 1 blocks
\* in which any block may have a frame count other than block_size
InitFuse ==
    /\ max_memory = AppMaxMemory
    /\ partition \in BOOLEAN
    /\ budget \in 1..(MaxBlocks + 1)
    /\ blocks \in [1..budget -> [s : {1}, frames : {BlockSize, BlockSize + 1}]]
    /\ soundblock_q = [k \in 1..budget |-> k]
    /\ unfinished = budget
    /\ mem_size = Baseline + budget * BlockBytes
    /\ rectime = budget
    /\ prev_ab = budget
    /\ rec = FALSE
    /\ filepath \in {[stem |-> "new", suf |-> "wav"], [stem |-> "old", suf |-> "wav"]}
    /\ spath = [s \in Sessions |-> IF s = 1 THEN filepath ELSE NoPath]
    /\ args = [path |-> filepath, max_time |-> -1]
    /\ partition_ctr = 0
    /\ input_stream = 1
    /\ memory_thread = 1
    /\ stop_timer_thread = 0
    /\ stream = [s \in Sessions |-> IF s = 1 THEN "stopped" ELSE "none"]
    /\ cb = [s \in Sessions |-> CbIdle]
    /\ tfin = [s \in Sessions |-> FALSE]
    /\ pc = [t \in Threads |-> IF t = User THEN "fq_empty"
                                ELSE IF t = MemThr(1) THEN "dead" ELSE "none"]
    /\ loc = [t \in Threads |-> IF t = User THEN [NoLoc EXCEPT !.tgt = 1] ELSE NoLoc]
    /\ disk = (FileName([stem |-> "old", suf |-> "wav"], -1) :> OldFrames)
    /\ sess = 1
    /\ hlog = << >>
    /\ wlog = << >>
    /\ err = [t \in Threads |-> "none"]
    /\ ffstart = {1}
    /\ stops = {<< User, 1 >>}
    /\ stopped = {}
    /\ saves = [s \in Sessions |-> 0]
    /\ last = "stop"

NextFuse ==
    \/ Flushing(User)
    \/ Saving(User)
    \/ SvInc(User)
    \/ StClear(User)

SpecFuse == InitFuse /\ [][NextFuse]_vars

\* ------------------------------------------------------------------ queries
\* lines 244-246
is_recording == rec
\* lines 248-253
get_sq_mem == mem_size
\* lines 255-262, in block lengths
get_rec_time == IF is_recording THEN rectime ELSE -1

\* ------------------------------------------------------- vocabulary of claims
FlushPcs == {"fq_empty", "fq_size", "fq_get", "fq_done", "sv_path", "sv_append",
             "sv_fmt", "sv_name", "sv_inc", "sv_write", "mr_reset"}
StopPcs == {"st_set", "st_t1", "st_t2", "st_t3", "st_stream", "st_join", "st_clear"}
             \cup FlushPcs
\* the memory thread of session s is running
Alive(s) == pc[MemThr(s)] \notin {"none", "created", "dead"}
\* the callback has put block b into the queue
Enqueued(b) == \A s \in Sessions : cb[s].blk = b => cb[s].pc = "time"
Count(q, x) == Cardinality({k \in DOMAIN q : q[k] = x})
\* no call of stop_recording for session s is still running
Settled(s) == \A t \in Stoppers : pc[t] \in StopPcs => loc[t].tgt # s
RECURSIVE Flat(_)
Flat(w) == IF w = << >> THEN << >> ELSE Head(w).frames \o Flat(Tail(w))
\* the samples written so far, in the order they were written, gaps left out
Samples == SelectSeq(Flat(wlog), LAMBDA x : x > 0)

\* C1: once stop() has returned for a session that has a target path, every
\* block its callback enqueued has been handed to the disk writer exactly once
C1_NoBlockLostOrDoubled ==
    \A e \in stopped :
        (spath[e[2]] # NoPath /\ Settled(e[2])) =>
            \A b \in DOMAIN blocks :
                (blocks[b].s = e[2] /\ Enqueued(b)) => Count(hlog, b) = 1

\* C2: a stop call is past the stream stop only with its session's stream
\* stopped, and in or past the forced flush only with its session's memory
\* thread ended; once a forced flush has begun, the session's callback and
\* memory thread never run again
C2_StopIsBarrier ==
    /\ \A t \in Stoppers :
          /\ pc[t] \in ({"st_join", "st_clear"} \cup FlushPcs) =>
                 stream[loc[t].tgt] # "active"
          /\ pc[t] \in ({"st_clear"} \cup FlushPcs) => ~Alive(loc[t].tgt)
    /\ \A s \in ffstart : stream[s] # "active" /\ cb[s].pc = "idle" /\ ~Alive(s)

\* C3: when a stop() call made while Recording ends, the controller is Idle, the
\* queue is empty, the estimate is the baseline, the elapsed time is the
\* sentinel and the last captured block is cleared
C3_StopLeavesIdle ==
    [][(pc[User] \in StopPcs /\ pc'[User] = "idle") =>
          (/\ ~is_recording'
           /\ soundblock_q' = << >>
           /\ get_sq_mem' = Baseline
           /\ get_rec_time' = -1
           /\ prev_ab' = 0)]_vars

\* C4: the buffer fusion hands on holds exactly nblocks * block_size frames
C4_FusedIsConcatenation ==
    \A t \in Flushers :
        (pc[t] = "sv_path" /\ ~loc[t].isNone) =>
            Len(loc[t].audio_np) = loc[t].nblocks * BlockSize

\* C5: the samples of two blocks of one session reach the disk in the order
\* the blocks were captured
C5_CaptureOrderKept ==
    \A i, j \in DOMAIN Samples :
        (i < j /\ blocks[Samples[i]].s = blocks[Samples[j]].s) => Samples[i] <= Samples[j]

\* C6: start() while Recording and stop() while Idle raise nothing and change
\* nothing of the recorder (only the record of the caller's last call)
C6_NoopCalls ==
    [][(\/ rec /\ \E p \in AllPaths, m \in MaxTimes : StartRecording(p, m)
        \/ ~rec /\ StopRecording(User)) =>
          /\ err'[User] = "none"
          /\ last' \in {"start_noop", "stop_noop"}
          /\ UNCHANGED << cfgV, handleV, queueV, statV, objV, fileV, rec, pc, loc, args,
                       blocks, sess, hlog, wlog, ffstart, stops, stopped, spath, saves >>]_vars

\* C6 witness: start() has returned at once in a session that is capturing
C6_Witness == last = "start_noop" /\ rec /\ soundblock_q # << >>

\* C7: a timer runs the stop sequence only in the session that scheduled it, and
\* only if no other stop_recording call runs or has run for that session
C7_AutoStopOnce ==
    \A e \in stops :
        Kind(e[1]) = "t" =>
            /\ e[1] = TimerThr(e[2])
            /\ \A f \in stops : f[2] = e[2] => f = e

\* C8: a session started with max_time > 0 whose capture is running is Idle
\* again at some later time, whether or not the application calls stop()
C8_AutoStopHappens ==
    (rec /\ args.max_time > 0 /\ sess > 0 /\ stream[IF sess > 0 THEN sess ELSE 1] = "active")
        ~> ~rec

\* C9: the step that completes a flush leaves the estimate at the baseline, and
\* no other step lowers the estimate
C9_EstimateResetAndMonotone ==
    [][/\ (\E t \in Flushers : pc[t] = "mr_reset" /\ pc'[t] # "mr_reset") =>
              get_sq_mem' = Baseline
       /\ (\A t \in Flushers : pc[t] = "mr_reset" => pc'[t] = "mr_reset") =>
              get_sq_mem' >= get_sq_mem]_vars

\* C10: with a finite threshold and the memory thread started, an estimate at
\* or above the threshold while Recording leads to a completed periodic flush
\* (or to the end of the session)
C10_PollingKeepsFlushing ==
    (/\ rec
     /\ max_memory >= 0
     /\ mem_size >= max_memory
     /\ sess > 0
     /\ pc[MemThr(IF sess > 0 THEN sess ELSE 1)] \notin {"none", "created"})
        ~> (~rec \/ \E s \in Sessions : pc[MemThr(s)] = "mr_reset")

\* C11: with the unbounded threshold a start_recording call that got its device
\* leaves the recorder recording with the stream active, no memory thread ever
\* exists, _manage_record runs only as the forced flush of stop_recording, and
\* _save is called once per session, by that flush
C11_UnboundedWritesOnStop ==
    max_memory < 0 =>
        /\ \A s \in Sessions : pc[MemThr(s)] = "none"
        /\ (last = "start" /\ pc[User] = "idle" /\ err[User] # "PortAudioError") =>
               (rec /\ stream[sess] = "active")
        /\ \A t \in Threads :
               pc[t] \in FlushPcs => (t = User /\ loc[t].tgt \in ffstart)
        /\ \A s \in Sessions :
               /\ saves[s] <= 1
               /\ saves[s] = 1 => s \in ffstart
               /\ (s \in ffstart /\ Settled(s)) => saves[s] = 1

\* C11 witness: an unbounded session was stopped and its one call of _save wrote
\* the captured block
C11_Witness ==
    /\ max_memory < 0
    /\ \E e \in stopped : saves[e[2]] = 1 /\ spath[e[2]] # NoPath
    /\ wlog # << >>

\* C12: with partitioning, of two writes of one session the later one goes to a
\* file name with a strictly greater partition index
C12_PartitionNamesIncrease ==
    partition =>
        \A i, j \in DOMAIN wlog :
            (i < j /\ wlog[i].s = wlog[j].s) => wlog[i].fp.part < wlog[j].fp.part

\* the file that exists before the first session, which is where the fallback
\* of an unsupported suffix on the same stem leads
OldFile == FileName([stem |-> "old", suf |-> DefaultFormat], -1)

\* C13: a session started on a path with an unsupported suffix whose fallback
\* path is the existing file never writes to that file
C13_FallbackNeverOverwrites ==
    \A k \in DOMAIN wlog :
        (/\ spath[wlog[k].s] # NoPath
         /\ spath[wlog[k].s].suf \notin AvailableFormats
         /\ FileName([spath[wlog[k].s] EXCEPT !.suf = DefaultFormat], -1) = OldFile)
            => wlog[k].fp # OldFile

\* C14: at most one thread is inside _manage_record's flush (fuse, save, reset)
\* at any time
C14_OneFlushAtATime ==
    Cardinality({t \in Flushers : pc[t] \in FlushPcs}) <= 1

\* where a thread is between the call of _save and its return
SavePcs == {"sv_path", "sv_append", "sv_fmt", "sv_name", "sv_inc", "sv_write"}

\* C15: a flush whose fusion found the queue empty goes on to the reset of the
\* estimate without raising and without touching the target path, the
\* partition counter or any file
C15_EmptyFlushSkipped ==
    [][\A t \in Flushers :
          (pc[t] \in SavePcs /\ loc[t].isNone /\ pc'[t] # pc[t]) =>
              /\ pc'[t] \in SavePcs \cup {"mr_reset"}
              /\ UNCHANGED << filepath, partition_ctr, disk >>]_vars

\* what file f holds before the first session
Before(f) == IF f = OldFile THEN OldFrames ELSE << >>
\* the writes that went to file f, in order
WritesTo(f) == SelectSeq(wlog, LAMBDA w : w.fp = f)

\* C16: without partitioning, a session on a path with a supported suffix writes
\* to that path only, and the file holds what it held before the first write
\* followed by the buffers written to it, in the order of the writes
C16_SingleGrowingFile ==
    ~partition =>
        \A s \in Sessions :
            (spath[s] # NoPath /\ spath[s].suf \in AvailableFormats) =>
                LET f == FileName(spath[s], -1)
                IN  /\ \A k \in DOMAIN wlog : wlog[k].s = s => wlog[k].fp = f
                    /\ f \in DOMAIN disk => disk[f] = Before(f) \o Flat(WritesTo(f))

\* the writes of session s, in order
WritesOf(s) == SelectSeq(wlog, LAMBDA w : w.s = s)

\* C17: with partitioning, the partition counter is 0 whenever no session is
\* open (not recording, no call of stop_recording or flush running), and the
\* first file every session writes carries the partition index 0
C17_PartitionCounterPerSession ==
    partition =>
        /\ (~rec /\ \A t \in Threads : pc[t] \notin StopPcs) => partition_ctr = 0
        /\ \A s \in Sessions : WritesOf(s) # << >> => WritesOf(s)[1].fp.part = 0

\* the ids of the first n blocks delivered that have block_size frames, in order
WellFormed(n) == SelectSeq([k \in 1..n |-> k], LAMBDA b : blocks[b].frames = BlockSize)
\* the buffer for a drain of n blocks of which the sequence good was copied:
\* block j of good in slot j, one unused frame after each block, zeros after
Packed(good, n) ==
    [k \in 1..((BlockSize + 1) * n) |->
        LET j == ((k - 1) \div (BlockSize + 1)) + 1
        IN  IF j <= Len(good) /\ ((k - 1) % (BlockSize + 1)) < BlockSize
            THEN good[j] ELSE 0]

\* C18: in the flush of a queue holding blocks 1..n, the blocks that do not fit
\* the buffer are dropped and nothing else: the fused buffer holds the other
\* blocks in queue order in consecutive slots, the queue is empty after the
\* drain, and the buffer is what gets written
C18_BadBlockAloneDropped ==
    /\ pc[User] \in SavePcs =>
           /\ ~loc[User].isNone
           /\ loc[User].audio_np = Packed(WellFormed(budget), budget)
           /\ soundblock_q = << >>
    /\ pc[User] \in {"mr_reset", "st_clear", "idle"} =>
           /\ err[User] = "none"
           /\ Len(wlog) = 1
           /\ wlog[1].frames = Packed(WellFormed(budget), budget)

\* C18 witness: a flush has written a buffer from a queue in which a block that
\* does not fit came before one that does
C18_Witness ==
    /\ pc[User] = "idle"
    /\ wlog # << >>
    /\ \E i, j \in DOMAIN blocks :
           i < j /\ blocks[i].frames # BlockSize /\ blocks[j].frames = BlockSize

\* the blocks of session s whose callback has returned
Delivered(s) == {b \in DOMAIN blocks : blocks[b].s = s /\ \A x \in Sessions : cb[x].blk # b}

\* C19: while recording, get_rec_time() is the number of blocks (in block
\* lengths) the callback has delivered since the last start_recording; while
\* not recording it is -1
C19_ElapsedTimeCountsBlocks ==
    get_rec_time = IF is_recording THEN Cardinality(Delivered(sess)) ELSE -1

\* C20: self.filepath changes only in start_recording, or by the fallback of an
\* unsupported suffix to the default one, and then only from the path the
\* session was started with and before the session has written anything
C20_PathFixedAfterFirstWrite ==
    [][filepath' # filepath =>
          \/ sess' = sess + 1
          \/ /\ filepath # NoPath
             /\ filepath.suf \notin AvailableFormats
             /\ filepath' = [filepath EXCEPT !.suf = DefaultFormat]
             /\ sess > 0
             /\ filepath = spath[IF sess > 0 THEN sess ELSE 1]
             /\ WritesOf(sess) = << >>]_vars

\* C20 witness: a session whose path was rewritten by the fallback has written
\* under the rewritten path
C20_Witness ==
    /\ sess > 0
    /\ filepath # spath[IF sess > 0 THEN sess ELSE 1]
    /\ \E k \in DOMAIN wlog : wlog[k].s = sess /\ wlog[k].fp = FileName(filepath, -1)

\* C21: once a start_recording call has ended with an exception, the recorder
\* is not recording and nothing of the failed attempt runs: its stream is not
\* active, its memory thread and its timer are not running
C21_FailedStartLeavesIdle ==
    (pc[User] = "idle" /\ last = "start" /\ err[User] # "none") =>
        /\ ~is_recording
        /\ stream[sess] # "active"
        /\ ~Alive(sess)
        /\ pc[TimerThr(sess)] \notin {"waiting", "fired"} \cup StopPcs

\* C22: whenever no capture callback is running, the estimate is at least the
\* baseline plus what every block now in the queue added to it
C22_EstimateCoversQueue ==
    (\A s \in Sessions : cb[s].pc = "idle") =>
        get_sq_mem >= Baseline + BlockBytes * Len(soundblock_q)

====
